---- MODULE Spec2Model ----
(***************************************************************************)
(* vcv: discovery of a Visual Studio toolchain, Windows SDK and Universal  *)
(* CRT, and assembly of PATH / INCLUDE / LIB / LIBPATH (src/src/*.rs).     *)
(*                                                                         *)
(* Strings are sequences of one-character strings; a name the code never   *)
(* inspects character by character (a fixed directory or file name) is a   *)
(* one-element sequence holding the whole name.  A path is the sequence of *)
(* its components.  Option<T> is the empty sequence (None) or a            *)
(* one-element sequence (Some).                                            *)
(***************************************************************************)
EXTENDS Integers, Sequences, FiniteSets, TLC

VARIABLES
    entry,        \* the function the run entered through
    pc,           \* control location
    stack,        \* return locations of the calls in progress
    args,         \* arguments of the entered function / the parsed command line
    vswhere_exists, \* does vswhere.exe exist at its fixed location
    vswhere_out,  \* what running vswhere yields: spawn failure, unparsable, or entries
    fs,           \* the filesystem: [dirs: set of paths, files: path -> content]
    reg,          \* the registry: <<hive, prefix, key>> -> Option<String>
    vs_list,      \* detect_vs: entries / filtered / sorted / remaining candidates
    vs,           \* Option<VsInfo> returned by detect_vs
    versions,     \* Vec<(u16, String)> returned by list_vs_versions
    reg_i,        \* reg_find: index of the next probe (0..4)
    reg_key,      \* reg_find: the (path, name) being looked up
    reg_res,      \* Option<String> returned by reg_find
    sdk,          \* Option<SdkInfo> returned by detect_sdk
    ucrt,         \* Option<SdkInfo> returned by detect_ucrt
    env,          \* Option<Env> returned by build_env
    env2,         \* Option<Env> of a second build_env call with the same arguments
    stderr,       \* lines written to the error stream
    stdout,       \* what was printed to standard output
    exit_code,    \* Option<status> of the process
    trace         \* the discovery I/O performed so far, in order

vars == <<entry, pc, stack, args, vswhere_exists, vswhere_out, fs, reg, vs_list, vs,
          versions, reg_i, reg_key, reg_res, sdk, ucrt, env, env2, stderr, stdout,
          exit_code, trace>>

-----------------------------------------------------------------------------
(* Option *)
None == <<>>
Some(x) == <<x>>
IsSome(o) == o # <<>>
Unwrap(o) == o[1]

-----------------------------------------------------------------------------
(* Strings *)

\* The byte value of a character (String::cmp compares bytes).
Byte(c) ==
    CASE c = "\t" -> 9  [] c = "\n" -> 10 [] c = " " -> 32 [] c = "." -> 46
      [] c = "0" -> 48  [] c = "1" -> 49  [] c = "2" -> 50 [] c = "3" -> 51
      [] c = "4" -> 52  [] c = "5" -> 53  [] c = "6" -> 54 [] c = "7" -> 55
      [] c = "8" -> 56  [] c = "9" -> 57  [] c = "x" -> 120

\* str::starts_with
starts_with(s, p) == Len(p) <= Len(s) /\ SubSeq(s, 1, Len(p)) = p

\* Ord::cmp on strings: bytewise lexicographic, a proper prefix is Less.
RECURSIVE cmp(_, _)
cmp(a, b) ==
    IF a = <<>> /\ b = <<>> THEN "Equal"
    ELSE IF a = <<>> THEN "Less"
    ELSE IF b = <<>> THEN "Greater"
    ELSE IF Byte(a[1]) < Byte(b[1]) THEN "Less"
    ELSE IF Byte(a[1]) > Byte(b[1]) THEN "Greater"
    ELSE cmp(Tail(a), Tail(b))

IsWhite(c) == c \in {" ", "\n", "\t"}

\* str::trim: drop leading and trailing whitespace.
RECURSIVE trim_start(_)
trim_start(s) == IF s # <<>> /\ IsWhite(s[1]) THEN trim_start(Tail(s)) ELSE s
RECURSIVE trim_end(_)
trim_end(s) ==
    IF s # <<>> /\ IsWhite(s[Len(s)]) THEN trim_end(SubSeq(s, 1, Len(s) - 1)) ELSE s
trim(s) == trim_end(trim_start(s))

-----------------------------------------------------------------------------
(* Paths and the filesystem *)

\* PathBuf::join with a relative component: no second separator is added after a
\* trailing one. (The path is bound once, as q, so that it is evaluated once.)
join(p, c) ==
    CHOOSE r \in {IF q # <<>> /\ q[Len(q)] = <<>> THEN Append(SubSeq(q, 1, Len(q) - 1), c)
                  ELSE Append(q, c) : q \in {p}} : TRUE

\* Path components ignore empty components (a trailing separator).
Norm(p) == SelectSeq(p, LAMBDA c : c # <<>>)

\* Path::exists
exists(f, p) == Norm(p) \in f.dirs \cup DOMAIN f.files

\* Path::is_dir
is_dir(f, p) == Norm(p) \in f.dirs

\* std::fs::read_dir: the names of the immediate children, None when p is no directory.
read_dir(f, p) ==
    IF ~is_dir(f, p) THEN None
    ELSE Some({q[Len(q)] : q \in {r \in f.dirs \cup DOMAIN f.files :
                                    Len(r) = Len(Norm(p)) + 1
                                    /\ SubSeq(r, 1, Len(r) - 1) = Norm(p)}})

\* Path::display: the components separated by backslashes.
RECURSIVE display(_)
display(p) ==
    IF p = <<>> THEN <<>>
    ELSE IF Len(p) = 1 THEN p[1]
    ELSE p[1] \o <<"\\">> \o display(Tail(p))

\* Read single-line text file
read_txt(f, p) ==
    IF Norm(p) \in DOMAIN f.files THEN Some(trim(f.files[Norm(p)])) ELSE None

\* Option::or_else
or_else(o, alt) == IF IsSome(o) THEN o ELSE alt

-----------------------------------------------------------------------------
(* Fixed names *)
Lit(name) == <<name>>

\* C:\Program Files (x86)\Microsoft Visual Studio\Installer\vswhere.exe
VsWherePath == <<Lit("C:"), Lit("Program Files (x86)"), Lit("Microsoft Visual Studio"),
                 Lit("Installer"), Lit("vswhere.exe")>>
V143File == Lit("Microsoft.VCToolsVersion.v143.default.txt")
DefaultFile == Lit("Microsoft.VCToolsVersion.default.txt")

Archs == {"X64", "X86", "Arm64"}

\* Arch::as_str
as_str(a) == CASE a = "X64" -> Lit("x64") [] a = "X86" -> Lit("x86") [] a = "Arm64" -> Lit("arm64")

-----------------------------------------------------------------------------
(* detect.rs: Visual Studio *)

\* Mutant of build_vs_info: the tools directory is not checked to exist.
build_vs_info_unchecked(f, e) ==
    LET install == e.installation_path
        vc == join(install, Lit("VC"))
        aux == join(join(vc, Lit("Auxiliary")), Lit("Build"))
        tv == or_else(read_txt(f, join(aux, V143File)), read_txt(f, join(aux, DefaultFile)))
    IN  IF ~IsSome(tv) THEN None
        ELSE LET tools_ver == Unwrap(tv)
                 tools == join(join(join(vc, Lit("Tools")), Lit("MSVC")), tools_ver)
             IN  Some([install |-> install, version |-> e.installation_version,
                       vc |-> vc, tools_ver |-> tools_ver, tools |-> tools])

\* Build VsInfo from vswhere entry
build_vs_info(f, e) ==
    LET install == e.installation_path
        vc == join(install, Lit("VC"))
        aux == join(join(vc, Lit("Auxiliary")), Lit("Build"))
        tv == or_else(read_txt(f, join(aux, V143File)), read_txt(f, join(aux, DefaultFile)))
    IN  IF ~IsSome(tv) THEN None
        ELSE LET tools_ver == Unwrap(tv)
                 tools == join(join(join(vc, Lit("Tools")), Lit("MSVC")), tools_ver)
             IN  IF ~exists(f, tools) THEN None
                 ELSE Some([install |-> install, version |-> e.installation_version,
                            vc |-> vc, tools_ver |-> tools_ver, tools |-> tools])

\* The major-version prefix of a year; None for any other year.
major(year) ==
    CASE year = 2017 -> Some(<<"1", "5", ".">>)
      [] year = 2019 -> Some(<<"1", "6", ".">>)
      [] year = 2022 -> Some(<<"1", "7", ".">>)
      [] OTHER -> None

\* Mutant of filter_major: the filter keeps every entry.
filter_major_keep_all(entries, m) == entries

\* entries.into_iter().filter(|e| e.installation_version.starts_with(major)).collect()
filter_major(entries, m) ==
    SelectSeq(entries, LAMBDA e : starts_with(e.installation_version, m))

\* Mutant of by_version_desc: the comparison is ascending.
by_version_asc(a, b) == cmp(a.installation_version, b.installation_version)

\* The comparator of sorted.sort_by: b.installation_version.cmp(&a.installation_version)
by_version_desc(a, b) == cmp(b.installation_version, a.installation_version)

\* slice::sort_by is stable: x goes after every element that does not compare Greater.
RECURSIVE insert_sorted(_, _)
insert_sorted(s, x) ==
    IF s = <<>> THEN <<x>>
    ELSE IF by_version_desc(s[1], x) = "Greater" THEN <<x>> \o s
    ELSE <<s[1]>> \o insert_sorted(Tail(s), x)

RECURSIVE sort_by(_)
sort_by(s) ==
    IF s = <<>> THEN <<>>
    ELSE insert_sorted(sort_by(SubSeq(s, 1, Len(s) - 1)), s[Len(s)])

\* Iterator::find_map(build_vs_info) over what is left of the sorted entries.
RECURSIVE find_map(_, _)
find_map(f, s) ==
    IF s = <<>> THEN None
    ELSE IF IsSome(build_vs_info(f, s[1])) THEN build_vs_info(f, s[1])
    ELSE find_map(f, Tail(s))

-----------------------------------------------------------------------------
(* Control *)

Ev(op, what) == <<op, what>>

\* Return from the current function to its caller (or finish a direct call).
Return ==
    IF stack = <<>> THEN pc' = "done" /\ stack' = stack
    ELSE pc' = Head(stack) /\ stack' = Tail(stack)

environment == <<vswhere_exists, vswhere_out, fs, reg>>
reg_locals == <<reg_i, reg_key, reg_res>>
out_streams == <<stderr, stdout, exit_code>>

\* detect_vs: if !vswhere.exists() { return None; }
VsExists ==
    /\ pc = "vs_exists"
    /\ trace' = Append(trace, Ev("exists", "vswhere.exe"))
    /\ IF vswhere_exists
       THEN pc' = "vs_spawn" /\ UNCHANGED <<stack, vs>>
       ELSE vs' = None /\ Return
    /\ UNCHANGED <<entry, args, environment, vs_list, versions, reg_locals, sdk, ucrt,
                   env, env2, out_streams>>

\* detect_vs: Command::new(&vswhere)...output().ok()?; serde_json::from_slice(..).ok()?
VsSpawn ==
    /\ pc = "vs_spawn"
    /\ trace' = Append(trace, Ev("spawn", "vswhere.exe"))
    /\ IF vswhere_out.spawn_ok /\ vswhere_out.json_ok
       THEN vs_list' = vswhere_out.entries /\ pc' = "vs_filter" /\ UNCHANGED <<stack, vs>>
       ELSE vs' = None /\ Return /\ UNCHANGED vs_list
    /\ UNCHANGED <<entry, args, environment, versions, reg_locals, sdk, ucrt,
                   env, env2, out_streams>>

\* detect_vs: filter by year if specified; an unknown year returns None
VsFilter ==
    /\ pc = "vs_filter"
    /\ IF IsSome(args.vs_year)
       THEN IF IsSome(major(Unwrap(args.vs_year)))
            THEN /\ vs_list' = filter_major(vs_list, Unwrap(major(Unwrap(args.vs_year))))
                 /\ pc' = "vs_sort" /\ UNCHANGED <<stack, vs>>
            ELSE vs' = None /\ Return /\ UNCHANGED vs_list
       ELSE pc' = "vs_sort" /\ UNCHANGED <<stack, vs, vs_list>>
    /\ UNCHANGED <<entry, args, environment, versions, reg_locals, sdk, ucrt,
                   env, env2, out_streams, trace>>

\* detect_vs: sort by version descending (latest first)
VsSort ==
    /\ pc = "vs_sort"
    /\ vs_list' = sort_by(vs_list)
    /\ pc' = "vs_find"
    /\ UNCHANGED <<entry, stack, args, environment, vs, versions, reg_locals, sdk, ucrt,
                   env, env2, out_streams, trace>>

\* Mutant of VsFind: vswhere.exe is run again after a candidate is skipped.
VsFindRespawn ==
    /\ pc = "vs_find"
    /\ IF vs_list = <<>>
       THEN vs' = None /\ Return /\ UNCHANGED <<vs_list, trace>>
       ELSE IF IsSome(build_vs_info(fs, Head(vs_list)))
            THEN /\ trace' = Append(trace, Ev("build_vs_info", "fs"))
                 /\ vs' = build_vs_info(fs, Head(vs_list)) /\ Return /\ UNCHANGED vs_list
            ELSE /\ trace' = trace \o <<Ev("build_vs_info", "fs"), Ev("spawn", "vswhere.exe")>>
                 /\ vs_list' = Tail(vs_list) /\ UNCHANGED <<pc, stack, vs>>
    /\ UNCHANGED <<entry, args, environment, versions, reg_locals, sdk, ucrt,
                   env, env2, out_streams>>

\* detect_vs: one step of sorted.into_iter().find_map(build_vs_info)
VsFind ==
    /\ pc = "vs_find"
    /\ IF vs_list = <<>>
       THEN vs' = None /\ Return /\ UNCHANGED <<vs_list, trace>>
       ELSE /\ trace' = Append(trace, Ev("build_vs_info", "fs"))
            /\ IF IsSome(build_vs_info(fs, Head(vs_list)))
               THEN vs' = build_vs_info(fs, Head(vs_list)) /\ Return /\ UNCHANGED vs_list
               ELSE vs_list' = Tail(vs_list) /\ UNCHANGED <<pc, stack, vs>>
    /\ UNCHANGED <<entry, args, environment, versions, reg_locals, sdk, ucrt,
                   env, env2, out_streams>>

-----------------------------------------------------------------------------
(* detect.rs: list_vs_versions *)

\* The year label of a version string, None when the prefix is none of the three.
year_of(v) ==
    IF starts_with(v, <<"1", "7", ".">>) THEN Some(2022)
    ELSE IF starts_with(v, <<"1", "6", ".">>) THEN Some(2019)
    ELSE IF starts_with(v, <<"1", "5", ".">>) THEN Some(2017)
    ELSE None

\* entries.into_iter().filter_map(|e| ... Some((year, e.installation_version))).collect()
RECURSIVE label_versions(_)
label_versions(es) ==
    IF es = <<>> THEN <<>>
    ELSE LET y == year_of(es[1].installation_version)
         IN  (IF IsSome(y) THEN <<<<Unwrap(y), es[1].installation_version>>>> ELSE <<>>)
             \o label_versions(Tail(es))

\* list_vs_versions: if !vswhere.exists() { return vec![]; }
LvExists ==
    /\ pc = "lv_exists"
    /\ trace' = Append(trace, Ev("exists", "vswhere.exe"))
    /\ IF vswhere_exists
       THEN pc' = "lv_spawn" /\ UNCHANGED <<stack, versions>>
       ELSE versions' = <<>> /\ Return
    /\ UNCHANGED <<entry, args, environment, vs_list, vs, reg_locals, sdk, ucrt,
                   env, env2, out_streams>>

\* list_vs_versions: run vswhere, parse its output, label every entry
LvSpawn ==
    /\ pc = "lv_spawn"
    /\ trace' = Append(trace, Ev("spawn", "vswhere.exe"))
    /\ versions' = IF vswhere_out.spawn_ok /\ vswhere_out.json_ok
                   THEN label_versions(vswhere_out.entries)
                   ELSE <<>>
    /\ Return
    /\ UNCHANGED <<entry, args, environment, vs_list, vs, reg_locals, sdk, ucrt,
                   env, env2, out_streams>>

-----------------------------------------------------------------------------
(* registry.rs *)

roots == <<"HKEY_LOCAL_MACHINE", "HKEY_CURRENT_USER">>
prefixes == <<"SOFTWARE\\Wow6432Node", "SOFTWARE">>

\* format!(r"{}\{}", prefix, path)
full_path(prefix, path) == <<prefix, path>>

\* Read single registry value
reg_val(r, root, path, name) ==
    IF <<root, path, name>> \in DOMAIN r THEN Some(r[<<root, path, name>>]) ELSE None

SdkKey == [path |-> "Microsoft\\Microsoft SDKs\\Windows\\v10.0", name |-> "InstallationFolder"]
UcrtKey == [path |-> "Microsoft\\Windows Kits\\Installed Roots", name |-> "KitsRoot10"]

\* Mutant of next_probe: the loops are nested the other way round.
next_probe_roots_inner(i) ==
    IF i[1] < Len(roots) THEN Some(<<i[1] + 1, i[2]>>)
    ELSE IF i[2] < Len(prefixes) THEN Some(<<1, i[2] + 1>>)
    ELSE None

\* The loop position after a failed probe: next prefix, then next root; None at the end.
next_probe(i) ==
    IF i[2] < Len(prefixes) THEN Some(<<i[1], i[2] + 1>>)
    ELSE IF i[1] < Len(roots) THEN Some(<<i[1] + 1, 1>>)
    ELSE None

\* reg_find: one iteration of for root in &roots { for prefix in &prefixes { .. } }
RegProbe ==
    /\ pc = "reg_find"
    /\ LET root == roots[reg_i[1]]
           prefix == prefixes[reg_i[2]]
           val == reg_val(reg, root, full_path(prefix, reg_key.path), reg_key.name)
       IN  /\ trace' = Append(trace, <<"reg_val", root, prefix>>)
           /\ IF IsSome(val)
              THEN reg_res' = val /\ Return /\ UNCHANGED reg_i
              ELSE IF IsSome(next_probe(reg_i))
                   THEN reg_i' = Unwrap(next_probe(reg_i)) /\ UNCHANGED <<pc, stack, reg_res>>
                   ELSE reg_res' = None /\ Return /\ UNCHANGED reg_i
    /\ UNCHANGED <<entry, args, environment, vs_list, vs, versions, reg_key, sdk, ucrt,
                   env, env2, out_streams>>

-----------------------------------------------------------------------------
(* detect.rs: Windows SDK and Universal CRT *)

\* versions.sort_by(|a, b| b.file_name().cmp(&a.file_name())): the names, greatest first.
RECURSIVE sort_names_desc(_)
sort_names_desc(S) ==
    IF S = {} THEN <<>>
    ELSE LET m == CHOOSE x \in S : \A y \in S : cmp(y, x) # "Greater"
         IN  <<m>> \o sort_names_desc(S \ {m})

\* slice::first
first(s) == IF s = <<>> THEN None ELSE Some(s[1])

\* Mutant of sdk_scan: the marker file is not looked for.
sdk_scan_no_marker(f, r) ==
    IF ~IsSome(r) THEN None
    ELSE LET root == Unwrap(r)
             inc == join(root, Lit("include"))
         IN  IF ~exists(f, inc) THEN None
             ELSE IF ~IsSome(read_dir(f, inc)) THEN None
             ELSE LET vers == {n \in Unwrap(read_dir(f, inc)) :
                                 /\ is_dir(f, join(inc, n))
                                 /\ starts_with(n, <<"1", "0", ".">>)}
                      version == first(sort_names_desc(vers))
                  IN  IF ~IsSome(version) THEN None
                      ELSE Some([path |-> root, version |-> Unwrap(version)])

\* detect_sdk after the registry lookup
sdk_scan(f, r) ==
    IF ~IsSome(r) THEN None
    ELSE LET root == Unwrap(r)
             inc == join(root, Lit("include"))
         IN  IF ~exists(f, inc) THEN None
             ELSE IF ~IsSome(read_dir(f, inc)) THEN None
             ELSE LET vers == {n \in Unwrap(read_dir(f, inc)) :
                                 /\ is_dir(f, join(inc, n))
                                 /\ starts_with(n, <<"1", "0", ".">>)
                                 /\ exists(f, join(join(join(inc, n), Lit("um")),
                                                   Lit("winsdkver.h")))}
                      version == first(sort_names_desc(vers))
                  IN  IF ~IsSome(version) THEN None
                      ELSE Some([path |-> root, version |-> Unwrap(version)])

\* detect_ucrt after the registry lookup
ucrt_scan(f, r) ==
    IF ~IsSome(r) THEN None
    ELSE LET root == Unwrap(r)
             lib == join(root, Lit("Lib"))
         IN  IF ~exists(f, lib) THEN None
             ELSE IF ~IsSome(read_dir(f, lib)) THEN None
             ELSE LET vers == {n \in Unwrap(read_dir(f, lib)) :
                                 /\ is_dir(f, join(lib, n))
                                 /\ starts_with(n, <<"1", "0", ".">>)
                                 /\ exists(f, join(join(join(join(lib, n), Lit("ucrt")),
                                                        Lit("x64")), Lit("ucrt.lib")))}
                      version == first(sort_names_desc(vers))
                  IN  IF ~IsSome(version) THEN None
                      ELSE Some([path |-> root, version |-> Unwrap(version)])

\* detect_sdk: reg_find(r"Microsoft\Microsoft SDKs\Windows\v10.0", "InstallationFolder")
SdkStart ==
    /\ pc = "sdk_start"
    /\ reg_key' = SdkKey /\ reg_i' = <<1, 1>> /\ reg_res' = None
    /\ pc' = "reg_find" /\ stack' = <<"sdk_scan">> \o stack
    /\ UNCHANGED <<entry, args, environment, vs_list, vs, versions, sdk, ucrt,
                   env, env2, out_streams, trace>>

\* detect_sdk: the rest of the function
SdkScan ==
    /\ pc = "sdk_scan"
    /\ sdk' = sdk_scan(fs, reg_res)
    /\ trace' = IF IsSome(reg_res) THEN Append(trace, Ev("scan", "include")) ELSE trace
    /\ Return
    /\ UNCHANGED <<entry, args, environment, vs_list, vs, versions, reg_locals, ucrt,
                   env, env2, out_streams>>

\* detect_ucrt: reg_find(r"Microsoft\Windows Kits\Installed Roots", "KitsRoot10")
UcrtStart ==
    /\ pc = "ucrt_start"
    /\ reg_key' = UcrtKey /\ reg_i' = <<1, 1>> /\ reg_res' = None
    /\ pc' = "reg_find" /\ stack' = <<"ucrt_scan">> \o stack
    /\ UNCHANGED <<entry, args, environment, vs_list, vs, versions, sdk, ucrt,
                   env, env2, out_streams, trace>>

\* detect_ucrt: the rest of the function
UcrtScan ==
    /\ pc = "ucrt_scan"
    /\ ucrt' = ucrt_scan(fs, reg_res)
    /\ trace' = IF IsSome(reg_res) THEN Append(trace, Ev("scan", "Lib")) ELSE trace
    /\ Return
    /\ UNCHANGED <<entry, args, environment, vs_list, vs, versions, reg_locals, sdk,
                   env, env2, out_streams>>

-----------------------------------------------------------------------------
(* env.rs *)

\* Mutant of add_if_exists: every path is pushed.
add_always(f, lst, paths) == lst \o paths

\* Env::add_if_exists
add_if_exists(f, lst, paths) == lst \o SelectSeq(paths, LAMBDA p : exists(f, p))

\* let hd = match host { .. }
host_dir(host) ==
    CASE host = "X64" -> Lit("Hostx64")
      [] host = "X86" -> Lit("Hostx86")
      [] host = "Arm64" -> Lit("Hostarm64")

\* BTreeMap::insert
insert(m, k, v) == [x \in DOMAIN m \cup {k} |-> IF x = k THEN v ELSE m[x]]

\* Mutant of with_sep: no separator is appended.
without_sep(x) == x

\* format!("{}\\", x)
with_sep(x) == x \o <<"\\">>

\* Mutant of env_path: the host-native directory is appended whatever the target.
env_path_always_host(f, v, s, host, target) ==
    LET tp == v.tools
        hd == host_dir(host)
        p1 == add_if_exists(f, <<>>, <<join(join(join(tp, Lit("bin")), hd), as_str(target))>>)
        p2 == add_if_exists(f, p1, <<join(join(join(tp, Lit("bin")), hd), as_str(host))>>)
    IN  IF IsSome(s)
        THEN add_if_exists(f, p2, <<join(join(join(Unwrap(s).path, Lit("bin")),
                                              Unwrap(s).version), as_str(host))>>)
        ELSE p2

\* VC++ binaries, then the SDK's
env_path(f, v, s, host, target) ==
    LET tp == v.tools
        hd == host_dir(host)
        p1 == add_if_exists(f, <<>>, <<join(join(join(tp, Lit("bin")), hd), as_str(target))>>)
        p2 == IF host # target
              THEN add_if_exists(f, p1, <<join(join(join(tp, Lit("bin")), hd), as_str(host))>>)
              ELSE p1
    IN  IF IsSome(s)
        THEN add_if_exists(f, p2, <<join(join(join(Unwrap(s).path, Lit("bin")),
                                              Unwrap(s).version), as_str(host))>>)
        ELSE p2

\* Mutant of env_include: the UCRT section runs before the SDK section.
env_include_ucrt_first(f, v, s, u) ==
    LET tp == v.tools
        i1 == add_if_exists(f, <<>>, <<join(tp, Lit("include")),
                                       join(join(tp, Lit("ATLMFC")), Lit("include"))>>)
        i2 == IF IsSome(u)
              THEN add_if_exists(f, i1, <<join(join(join(Unwrap(u).path, Lit("include")),
                                                    Unwrap(u).version), Lit("ucrt"))>>)
              ELSE i1
    IN  IF IsSome(s)
        THEN LET sp == join(join(Unwrap(s).path, Lit("include")), Unwrap(s).version)
             IN  add_if_exists(f, i2, <<join(sp, Lit("um")), join(sp, Lit("shared")),
                                        join(sp, Lit("winrt")), join(sp, Lit("cppwinrt"))>>)
        ELSE i2

\* VC++ headers, then the SDK's, then the UCRT's
env_include(f, v, s, u) ==
    LET tp == v.tools
        i1 == add_if_exists(f, <<>>, <<join(tp, Lit("include")),
                                       join(join(tp, Lit("ATLMFC")), Lit("include"))>>)
        i2 == IF IsSome(s)
              THEN LET sp == join(join(Unwrap(s).path, Lit("include")), Unwrap(s).version)
                   IN  add_if_exists(f, i1, <<join(sp, Lit("um")), join(sp, Lit("shared")),
                                              join(sp, Lit("winrt")), join(sp, Lit("cppwinrt"))>>)
              ELSE i1
    IN  IF IsSome(u)
        THEN add_if_exists(f, i2, <<join(join(join(Unwrap(u).path, Lit("include")),
                                              Unwrap(u).version), Lit("ucrt"))>>)
        ELSE i2

\* VC++ libs, then the SDK's, then the UCRT's
env_lib(f, v, s, u, target) ==
    LET tp == v.tools
        tgt == as_str(target)
        l1 == add_if_exists(f, <<>>, <<join(join(tp, Lit("lib")), tgt),
                                       join(join(join(tp, Lit("ATLMFC")), Lit("lib")), tgt)>>)
        l2 == IF IsSome(s)
              THEN add_if_exists(f, l1, <<join(join(join(join(Unwrap(s).path, Lit("lib")),
                                                         Unwrap(s).version), Lit("um")), tgt)>>)
              ELSE l1
    IN  IF IsSome(u)
        THEN add_if_exists(f, l2, <<join(join(join(join(Unwrap(u).path, Lit("lib")),
                                                   Unwrap(u).version), Lit("ucrt")), tgt)>>)
        ELSE l2

\* VC++ libs, then the SDK's metadata and references
env_libpath(f, v, s, target) ==
    LET tp == v.tools
        tgt == as_str(target)
        l1 == add_if_exists(f, <<>>, <<join(join(tp, Lit("lib")), tgt),
                                       join(join(join(tp, Lit("ATLMFC")), Lit("lib")), tgt)>>)
    IN  IF IsSome(s)
        THEN add_if_exists(f, l1, <<join(join(Unwrap(s).path, Lit("UnionMetadata")),
                                         Unwrap(s).version),
                                    join(join(Unwrap(s).path, Lit("References")),
                                         Unwrap(s).version)>>)
        ELSE l1

\* Standard variables
env_vars(v, s, u, target) ==
    LET m0 == [x \in {} |-> <<>>]
        m1 == insert(m0, "VSINSTALLDIR", with_sep(display(v.install)))
        m2 == insert(m1, "VCINSTALLDIR", with_sep(display(v.vc)))
        m3 == insert(m2, "VCToolsInstallDir", with_sep(display(v.tools)))
        m4 == insert(m3, "VCToolsVersion", v.tools_ver)
        m5 == insert(m4, "VisualStudioVersion", <<"1", "7", ".", "0">>)
        m6 == insert(m5, "Platform", as_str(target))
        m7 == IF IsSome(s)
              THEN insert(insert(m6, "WindowsSdkDir", with_sep(display(Unwrap(s).path))),
                          "WindowsSDKVersion", with_sep(Unwrap(s).version))
              ELSE m6
    IN  IF IsSome(u)
        THEN insert(insert(m7, "UniversalCRTSdkDir", with_sep(display(Unwrap(u).path))),
                    "UCRTVersion", Unwrap(u).version)
        ELSE m7

\* Build complete environment
build_env(f, v, s, u, host, target) ==
    [path |-> env_path(f, v, s, host, target),
     include |-> env_include(f, v, s, u),
     lib |-> env_lib(f, v, s, u, target),
     libpath |-> env_libpath(f, v, s, target),
     vars |-> env_vars(v, s, u, target)]

\* A direct call: build_env(&vs, sdk, ucrt, host, target)
BuildEnv ==
    /\ pc = "build_env"
    /\ env' = Some(build_env(fs, Unwrap(vs), sdk, ucrt, args.host, args.arch))
    /\ pc' = "build_env_again"
    /\ UNCHANGED <<entry, stack, args, environment, vs_list, vs, versions, reg_locals,
                   sdk, ucrt, env2, out_streams, trace>>

\* The same call repeated against the unchanged filesystem
BuildEnvAgain ==
    /\ pc = "build_env_again"
    /\ env2' = Some(build_env(fs, Unwrap(vs), sdk, ucrt, args.host, args.arch))
    /\ pc' = "done"
    /\ UNCHANGED <<entry, stack, args, environment, vs_list, vs, versions, reg_locals,
                   sdk, ucrt, env, out_streams, trace>>

-----------------------------------------------------------------------------
(* main.rs *)

\* Detect current shell from environment
detect_shell(msystem, prompt) ==
    IF msystem THEN "Sh" ELSE IF prompt THEN "Cmd" ELSE "Ps"

\* The formatter main selects for a format
formatter(format) ==
    CASE format = "Cmd" -> "fmt_cmd"
      [] format \in {"Ps", "Powershell"} -> "fmt_ps"
      [] format \in {"Sh", "Bash"} -> "fmt_sh"
      [] format = "Json" -> "fmt_json"

\* Mutant of MainValidate: detect_vs is called without validating the year.
MainValidateNothing ==
    /\ pc = "main"
    /\ pc' = "vs_exists"
    /\ stack' = <<"main_vs">> \o stack
    /\ UNCHANGED <<entry, args, environment, vs_list, vs, versions, reg_locals, sdk, ucrt,
                   env, env2, out_streams, trace>>

\* main: validate VS year if specified, then call detect_vs
MainValidate ==
    /\ pc = "main"
    /\ IF IsSome(args.vs_year) /\ Unwrap(args.vs_year) \notin {2017, 2019, 2022}
       THEN /\ stderr' = Append(stderr, "Error: Invalid VS year")
            /\ exit_code' = Some(1)
            /\ pc' = "exit"
            /\ UNCHANGED stack
       ELSE /\ pc' = "vs_exists"
            /\ stack' = <<"main_vs">> \o stack
            /\ UNCHANGED <<stderr, exit_code>>
    /\ UNCHANGED <<entry, args, environment, vs_list, vs, versions, reg_locals, sdk, ucrt,
                   env, env2, stdout, trace>>

\* Mutant of MainVs: an unresolved toolchain exits without listing the versions.
MainVsNoListing ==
    /\ pc = "main_vs"
    /\ IF IsSome(vs)
       THEN /\ pc' = "sdk_start"
            /\ stack' = <<"main_sdk">> \o stack
            /\ UNCHANGED <<stderr, exit_code>>
       ELSE /\ stderr' = Append(stderr, IF IsSome(args.vs_year)
                                        THEN "Error: Visual Studio {year} not found"
                                        ELSE "Error: Visual Studio not found")
            /\ exit_code' = Some(1)
            /\ pc' = "exit"
            /\ UNCHANGED stack
    /\ UNCHANGED <<entry, args, environment, vs_list, vs, versions, reg_locals, sdk, ucrt,
                   env, env2, stdout, trace>>

\* main: match detect::detect_vs(args.vs_year)
MainVs ==
    /\ pc = "main_vs"
    /\ IF IsSome(vs)
       THEN /\ pc' = "sdk_start"
            /\ stack' = <<"main_sdk">> \o stack
            /\ UNCHANGED <<stderr, exit_code>>
       ELSE IF IsSome(args.vs_year)
            THEN /\ stderr' = Append(stderr, "Error: Visual Studio {year} not found")
                 /\ pc' = "lv_exists"
                 /\ stack' = <<"main_list">> \o stack
                 /\ UNCHANGED exit_code
            ELSE /\ stderr' = Append(stderr, "Error: Visual Studio not found")
                 /\ exit_code' = Some(1)
                 /\ pc' = "exit"
                 /\ UNCHANGED stack
    /\ UNCHANGED <<entry, args, environment, vs_list, vs, versions, reg_locals, sdk, ucrt,
                   env, env2, stdout, trace>>

\* main: print the versions list_vs_versions returned, exit(1)
MainList ==
    /\ pc = "main_list"
    /\ stderr' = IF versions # <<>>
                 THEN Append(stderr, "Available versions:")
                      \o [i \in 1..Len(versions) |-> "  {y} ({v})"]
                 ELSE stderr
    /\ exit_code' = Some(1)
    /\ pc' = "exit"
    /\ UNCHANGED <<entry, stack, args, environment, vs_list, vs, versions, reg_locals,
                   sdk, ucrt, env, env2, stdout, trace>>

\* main: let ucrt = detect::detect_ucrt();
MainSdk ==
    /\ pc = "main_sdk"
    /\ pc' = "ucrt_start"
    /\ stack' = <<"main_ucrt">> \o stack
    /\ UNCHANGED <<entry, args, environment, vs_list, vs, versions, reg_locals, sdk, ucrt,
                   env, env2, out_streams, trace>>

\* main: print info to stderr
MainInfo ==
    /\ pc = "main_ucrt"
    /\ stderr' = IF args.quiet THEN stderr
                 ELSE Append(stderr, "# VS {version} | VC {tools_ver}")
                      \o (IF IsSome(sdk) THEN <<"# SDK {version}">> ELSE <<>>)
    /\ pc' = "main_build"
    /\ UNCHANGED <<entry, stack, args, environment, vs_list, vs, versions, reg_locals,
                   sdk, ucrt, env, env2, stdout, exit_code, trace>>

\* main: build environment, validate cl.exe exists
MainBuild ==
    /\ pc = "main_build"
    /\ LET e == build_env(fs, Unwrap(vs), sdk, ucrt, args.host, args.arch)
           cl_exists == \E i \in 1..Len(e.path) : exists(fs, join(e.path[i], Lit("cl.exe")))
       IN  /\ env' = Some(e)
           /\ stderr' = IF ~args.no_validate /\ ~cl_exists
                        THEN Append(stderr, "Warning: cl.exe not found in PATH")
                        ELSE stderr
    /\ pc' = "main_print"
    /\ UNCHANGED <<entry, stack, args, environment, vs_list, vs, versions, reg_locals,
                   sdk, ucrt, env2, stdout, exit_code, trace>>

\* main: resolve format, format the environment, println
MainPrint ==
    /\ pc = "main_print"
    /\ LET format == IF args.format = "Auto" THEN detect_shell(args.msystem, args.prompt)
                     ELSE args.format
       IN  stdout' = Append(stdout, [formatter |-> formatter(format), env |-> Unwrap(env)])
    /\ exit_code' = Some(0)
    /\ pc' = "exit"
    /\ UNCHANGED <<entry, stack, args, environment, vs_list, vs, versions, reg_locals,
                   sdk, ucrt, env, env2, stderr, trace>>

-----------------------------------------------------------------------------
(* The inputs: command lines, vswhere outputs, filesystems and registries *)

\* The longest vswhere output considered
MaxEntries == 2

\* Args::parse with nothing on the command line
DefaultArgs ==
    [vs_year |-> None, host |-> "X64", arch |-> "X64", format |-> "Auto",
     quiet |-> FALSE, no_validate |-> FALSE, msystem |-> FALSE, prompt |-> FALSE]

\* --vs values: absent, an unsupported year, and the three supported ones
VsYears == {None, Some(2015), Some(2017), Some(2019), Some(2022)}

\* Installation roots vswhere may report
RootA == <<Lit("C:"), Lit("VS"), Lit("A")>>
RootB == <<Lit("C:"), Lit("VS"), Lit("B")>>
RootC == <<Lit("C:"), Lit("VS"), Lit("C")>>
RootD == <<Lit("C:"), Lit("VS"), Lit("D")>>
Roots == {RootA, RootB, RootC, RootD}

\* installationVersion values: absent (the serde default), 15.x, 16.x, 17.x, 18.x
Versions ==
    {<<>>, <<"1", "5", ".", "9">>, <<"1", "6", ".", "1">>, <<"1", "7", ".", "8">>,
     <<"1", "7", ".", "1", "0">>, <<"1", "8", ".", "0">>}

VsWhereEntries == [installation_path : Roots, installation_version : Versions]

RECURSIVE SeqsUpTo(_, _)
SeqsUpTo(S, n) ==
    IF n = 0 THEN {<<>>}
    ELSE LET shorter == SeqsUpTo(S, n - 1)
         IN  shorter \cup {Append(q, x) : q \in {r \in shorter : Len(r) = n - 1}, x \in S}

VsWhereOk(es) == [spawn_ok |-> TRUE, json_ok |-> TRUE, entries |-> es]
VsWhereBadJson == [spawn_ok |-> TRUE, json_ok |-> FALSE, entries |-> <<>>]
VsWhereNoSpawn == [spawn_ok |-> FALSE, json_ok |-> FALSE, entries |-> <<>>]

\* vswhere.exe present or not, and what running it yields
VsWhereCases(lists) ==
    {<<FALSE, VsWhereNoSpawn>>, <<TRUE, VsWhereNoSpawn>>, <<TRUE, VsWhereBadJson>>}
    \cup {<<TRUE, VsWhereOk(es)>> : es \in lists}

EmptyFs == [dirs |-> {}, files |-> <<>>]
FsUnion(a, b) == [dirs |-> a.dirs \cup b.dirs, files |-> a.files @@ b.files]

\* Every non-empty prefix of a path
Ancestors(p) == {SubSeq(p, 1, n) : n \in 1..Len(p)}

T143 == <<"1", "4", ".", "3">>
T142 == <<"1", "4", ".", "2">>

\* An installation: its marker files (Option<content>) and its toolset directories
VsTree(root, v143, dflt, toolsets) ==
    LET aux == root \o <<Lit("VC"), Lit("Auxiliary"), Lit("Build")>>
        msvc == root \o <<Lit("VC"), Lit("Tools"), Lit("MSVC")>>
    IN  [dirs |-> Ancestors(aux) \cup Ancestors(msvc) \cup {Append(msvc, t) : t \in toolsets},
         files |-> (IF IsSome(v143) THEN Append(aux, V143File) :> Unwrap(v143) ELSE <<>>)
                   @@ (IF IsSome(dflt) THEN Append(aux, DefaultFile) :> Unwrap(dflt) ELSE <<>>)]

\* A: both markers, the pinned one wins.  B: only the generic marker.
\* C: the pinned marker names a toolset that is not installed.  D: no marker.
VsFixture ==
    FsUnion(VsTree(RootA, Some(<<" ">> \o T143 \o <<"\n">>), Some(T142 \o <<"\n">>),
                   {T143, T142}),
    FsUnion(VsTree(RootB, None, Some(T142 \o <<"\n">>), {T142}),
    FsUnion(VsTree(RootC, Some(T143), Some(T142), {T142}),
            VsTree(RootD, None, None, {T143}))))

\* What detect_vs returns for an installation at A (resp. B)
VsInfoA ==
    [install |-> RootA, version |-> <<"1", "7", ".", "8">>, vc |-> Append(RootA, Lit("VC")),
     tools_ver |-> T143, tools |-> RootA \o <<Lit("VC"), Lit("Tools"), Lit("MSVC"), T143>>]
VsInfoB ==
    [install |-> RootB, version |-> <<"1", "6", ".", "1">>, vc |-> Append(RootB, Lit("VC")),
     tools_ver |-> T142, tools |-> RootB \o <<Lit("VC"), Lit("Tools"), Lit("MSVC"), T142>>]

\* Registry values: a kits root with a trailing separator, and one without
KitsA == <<Lit("C:"), Lit("Kits"), Lit("10"), <<>>>>
KitsB == <<Lit("C:"), Lit("KitsB")>>

W2 == <<"1", "0", ".", "0", ".", "2">>
W10 == <<"1", "0", ".", "0", ".", "1", "0">>
W9 == <<"9", ".", "0">>
WFile == <<"1", "0", ".", "9">>
KitNames == {W2, W10, W9}
KitStates == {"absent", "marker", "nomarker"}

\* The directory KitsA\<sub> holding version directories in the given states; the
\* marker of a version directory is at <rel>.  WFile is a plain file there.
KitsTree(sub, rel, listing) ==
    LET base == Append(Norm(KitsA), sub)
    IN  [dirs |-> Ancestors(base)
                  \cup {Append(base, n) : n \in {m \in KitNames : listing[m] # "absent"}}
                  \cup UNION {Ancestors(Append(base, n) \o SubSeq(rel, 1, Len(rel) - 1))
                              \ Ancestors(base) : n \in {m \in KitNames : listing[m] = "marker"}},
         files |-> [q \in {Append(base, n) \o rel : n \in {m \in KitNames : listing[m] = "marker"}}
                          \cup {Append(base, WFile)} |-> <<>>]]

\* KitsA\<sub> is a plain file
KitsFile(sub) ==
    [dirs |-> Ancestors(Norm(KitsA)), files |-> Append(Norm(KitsA), sub) :> <<>>]

SdkRel == <<Lit("um"), Lit("winsdkver.h")>>
UcrtRel == <<Lit("ucrt"), Lit("x64"), Lit("ucrt.lib")>>

KitsFsCases(sub, rel) ==
    {KitsTree(sub, rel, l) : l \in [KitNames -> KitStates]} \cup {KitsFile(sub)}

\* The four places a key may be stored
RegLocs(k) == {<<r, <<p, k.path>>, k.name>> : r \in {roots[1], roots[2]},
                                             p \in {prefixes[1], prefixes[2]}}

\* A registry from the choice of a value (or none) for each place
RegOf(c) == [l \in {x \in DOMAIN c : IsSome(c[x])} |-> Unwrap(c[l])]

RegCases(k) == {RegOf(c) : c \in [RegLocs(k) -> {None, Some(KitsA), Some(KitsB)}]}

SdkInfoA == [path |-> KitsA, version |-> W2]
UcrtInfoA == [path |-> KitsA, version |-> W10]

\* The directories build_env asks for, by the list that asks
BinDirs(v, s, h, t) ==
    {v.tools \o <<Lit("bin"), host_dir(h), as_str(t)>>,
     v.tools \o <<Lit("bin"), host_dir(h), as_str(h)>>,
     Norm(s.path) \o <<Lit("bin"), s.version, as_str(h)>>}
IncludeDirs(v, s, u) ==
    {v.tools \o <<Lit("include")>>, v.tools \o <<Lit("ATLMFC"), Lit("include")>>,
     Norm(s.path) \o <<Lit("include"), s.version, Lit("um")>>,
     Norm(s.path) \o <<Lit("include"), s.version, Lit("shared")>>,
     Norm(s.path) \o <<Lit("include"), s.version, Lit("winrt")>>,
     Norm(s.path) \o <<Lit("include"), s.version, Lit("cppwinrt")>>,
     Norm(u.path) \o <<Lit("include"), u.version, Lit("ucrt")>>}
LibDirs(v, s, u, t) ==
    {v.tools \o <<Lit("lib"), as_str(t)>>, v.tools \o <<Lit("ATLMFC"), Lit("lib"), as_str(t)>>,
     Norm(s.path) \o <<Lit("lib"), s.version, Lit("um"), as_str(t)>>,
     Norm(u.path) \o <<Lit("lib"), u.version, Lit("ucrt"), as_str(t)>>}
LibpathDirs(v, s, t) ==
    {v.tools \o <<Lit("lib"), as_str(t)>>, v.tools \o <<Lit("ATLMFC"), Lit("lib"), as_str(t)>>,
     Norm(s.path) \o <<Lit("UnionMetadata"), s.version>>,
     Norm(s.path) \o <<Lit("References"), s.version>>}
EnvDirs(v, s, u, h, t) ==
    BinDirs(v, s, h, t) \cup IncludeDirs(v, s, u) \cup LibDirs(v, s, u, t)
    \cup LibpathDirs(v, s, t)

\* A filesystem where every directory build_env asks for exists, except those in M
EnvFs(v, s, u, h, t, M) ==
    [dirs |-> {v.tools} \cup (EnvDirs(v, s, u, h, t) \ M), files |-> <<>>]

\* The machine main runs on: installations A..D, kits under KitsA (include: 10.0.2
\* complete, 10.0.10 without marker, 9.0 complete; Lib: 10.0.2 and 10.0.10 complete),
\* every directory build_env may ask for, and cl.exe in A's bin directories.  The
\* filesystem is case-insensitive: Lib and lib name one directory.
MainSdk2 == [path |-> KitsA, version |-> W2]
MainFsFull ==
    LET kits == FsUnion(KitsTree(Lit("include"), SdkRel,
                                 [n \in KitNames |-> IF n = W10 THEN "nomarker" ELSE "marker"]),
                        KitsTree(Lit("Lib"), UcrtRel,
                                 [n \in KitNames |-> IF n = W9 THEN "absent" ELSE "marker"]))
        dirs == UNION {EnvDirs(v, MainSdk2, MainSdk2, h, t) :
                         v \in {VsInfoA, VsInfoB}, h \in Archs, t \in Archs}
        cl == {VsInfoA.tools \o <<Lit("bin"), host_dir(h), as_str(t), Lit("cl.exe")>> :
                 h \in Archs, t \in Archs}
    IN  FsUnion(VsFixture, FsUnion(kits, [dirs |-> dirs, files |-> [q \in cl |-> <<>>]]))

\* The same machine with no kits and none of the directories build_env asks for
MainFsBare == VsFixture

\* The registries main runs against: each key absent, in HKLM under SOFTWARE naming
\* KitsA, or in HKCU under Wow6432Node naming KitsB (which has no include or Lib)
MainRegCases ==
    LET one(k) == {<<>>,
                   <<roots[1], <<prefixes[2], k.path>>, k.name>> :> KitsA,
                   <<roots[2], <<prefixes[1], k.path>>, k.name>> :> KitsB}
    IN  {a @@ b : a \in one(SdkKey), b \in one(UcrtKey)}

\* The vswhere outputs main runs against
MainLists ==
    LET e(r, v) == [installation_path |-> r, installation_version |-> v]
    IN  {<<>>,
         <<e(RootA, <<"1", "7", ".", "8">>)>>,
         <<e(RootC, <<"1", "7", ".", "8">>)>>,
         <<e(RootB, <<"1", "6", ".", "1">>), e(RootA, <<"1", "7", ".", "8">>)>>,
         <<e(RootD, <<"1", "7", ".", "1", "0">>), e(RootB, <<"1", "7", ".", "8">>)>>}

\* The command lines main runs with
MainArgs ==
    {[DefaultArgs EXCEPT !.vs_year = y, !.arch = t, !.format = f[1], !.msystem = f[2],
                         !.quiet = q] :
       y \in {None, Some(2015), Some(2019), Some(2022)},
       t \in {"X64", "Arm64"},
       f \in {<<"Auto", FALSE>>, <<"Auto", TRUE>>, <<"Json", FALSE>>},
       q \in BOOLEAN}

\* Everything the program has not yet computed
Fresh ==
    /\ stack = <<>> /\ vs_list = <<>> /\ versions = <<>>
    /\ reg_i = <<1, 1>> /\ reg_res = None
    /\ env = None /\ env2 = None
    /\ stderr = <<>> /\ stdout = <<>> /\ exit_code = None /\ trace = <<>>

\* The program run from the command line
InitMain ==
    /\ entry = "main" /\ pc = "main"
    /\ args \in MainArgs
    /\ \E w \in VsWhereCases(MainLists) : vswhere_exists = w[1] /\ vswhere_out = w[2]
    /\ fs \in {MainFsFull, MainFsBare}
    /\ reg \in MainRegCases
    /\ reg_key = SdkKey /\ vs = None /\ sdk = None /\ ucrt = None
    /\ Fresh

\* detect_vs(vs_year)
InitDetectVs ==
    /\ entry = "detect_vs" /\ pc = "vs_exists"
    /\ \E y \in VsYears : args = [DefaultArgs EXCEPT !.vs_year = y]
    /\ \E w \in VsWhereCases(SeqsUpTo(VsWhereEntries, MaxEntries)) :
           vswhere_exists = w[1] /\ vswhere_out = w[2]
    /\ fs = VsFixture
    /\ reg = <<>>
    /\ reg_key = SdkKey /\ vs = None /\ sdk = None /\ ucrt = None
    /\ Fresh

\* list_vs_versions()
InitListVs ==
    /\ entry = "list_vs_versions" /\ pc = "lv_exists"
    /\ args = DefaultArgs
    /\ \E w \in VsWhereCases(SeqsUpTo(VsWhereEntries, MaxEntries)) :
           vswhere_exists = w[1] /\ vswhere_out = w[2]
    /\ fs = VsFixture
    /\ reg = <<>>
    /\ reg_key = SdkKey /\ vs = None /\ sdk = None /\ ucrt = None
    /\ Fresh

\* reg_find(path, name)
InitRegFind ==
    /\ entry = "reg_find" /\ pc = "reg_find"
    /\ args = DefaultArgs
    /\ vswhere_exists = FALSE /\ vswhere_out = VsWhereNoSpawn
    /\ fs = EmptyFs
    /\ reg_key \in {SdkKey, UcrtKey}
    /\ reg \in RegCases(reg_key)
    /\ vs = None /\ sdk = None /\ ucrt = None
    /\ Fresh

\* detect_sdk()
InitDetectSdk ==
    /\ entry = "detect_sdk" /\ pc = "sdk_start"
    /\ args = DefaultArgs
    /\ vswhere_exists = FALSE /\ vswhere_out = VsWhereNoSpawn
    /\ fs \in KitsFsCases(Lit("include"), SdkRel)
    /\ reg \in RegCases(SdkKey)
    /\ reg_key = SdkKey /\ vs = None /\ sdk = None /\ ucrt = None
    /\ Fresh

\* detect_ucrt()
InitDetectUcrt ==
    /\ entry = "detect_ucrt" /\ pc = "ucrt_start"
    /\ args = DefaultArgs
    /\ vswhere_exists = FALSE /\ vswhere_out = VsWhereNoSpawn
    /\ fs \in KitsFsCases(Lit("Lib"), UcrtRel)
    /\ reg \in RegCases(UcrtKey)
    /\ reg_key = SdkKey /\ vs = None /\ sdk = None /\ ucrt = None
    /\ Fresh

\* build_env(&vs, sdk, ucrt, host, target): every subset of the directories one of the
\* four lists asks for may be missing
InitBuildEnv ==
    /\ entry = "build_env" /\ pc = "build_env"
    /\ \E v \in {VsInfoA, VsInfoB}, s \in {None, Some(SdkInfoA)}, u \in {None, Some(UcrtInfoA)},
          h \in Archs, t \in Archs :
         /\ args = [DefaultArgs EXCEPT !.host = h, !.arch = t]
         /\ vs = Some(v) /\ sdk = s /\ ucrt = u
         /\ \E L \in {BinDirs(v, SdkInfoA, h, t), IncludeDirs(v, SdkInfoA, UcrtInfoA),
                      LibDirs(v, SdkInfoA, UcrtInfoA, t), LibpathDirs(v, SdkInfoA, t)} :
              \E M \in SUBSET L : fs = EnvFs(v, SdkInfoA, UcrtInfoA, h, t, M)
    /\ vswhere_exists = FALSE /\ vswhere_out = VsWhereNoSpawn
    /\ reg = <<>>
    /\ reg_key = SdkKey
    /\ Fresh

Init ==
    \/ InitMain
    \/ InitDetectVs
    \/ InitListVs
    \/ InitRegFind
    \/ InitDetectSdk
    \/ InitDetectUcrt
    \/ InitBuildEnv

Next ==
    \/ MainValidate
    \/ MainVs
    \/ MainList
    \/ MainSdk
    \/ MainInfo
    \/ MainBuild
    \/ MainPrint
    \/ VsExists
    \/ VsSpawn
    \/ VsFilter
    \/ VsSort
    \/ VsFind
    \/ LvExists
    \/ LvSpawn
    \/ RegProbe
    \/ SdkStart
    \/ SdkScan
    \/ UcrtStart
    \/ UcrtScan
    \/ BuildEnv
    \/ BuildEnvAgain

Spec == Init /\ [][Next]_vars

-----------------------------------------------------------------------------
(* Properties of detect_vs *)

\* The states in which detect_vs has returned
VsReturned ==
    \/ entry = "detect_vs" /\ pc = "done"
    \/ entry = "main" /\ pc \notin {"main", "vs_exists", "vs_spawn", "vs_filter", "vs_sort",
                                    "vs_find"}
                      /\ (pc = "exit" => trace # <<>>)

\* The prefix a constraint asks for, as the spec lists them
PrefixOfYear(y) ==
    CASE y = 2017 -> <<"1", "5", ".">>
      [] y = 2019 -> <<"1", "6", ".">>
      [] y = 2022 -> <<"1", "7", ".">>

RecognisedYear(y) == y \in {2017, 2019, 2022}

\* What enumeration returned: nothing when the tool is absent, fails or prints no JSON
Enumerated ==
    IF vswhere_exists /\ vswhere_out.spawn_ok /\ vswhere_out.json_ok
    THEN vswhere_out.entries
    ELSE <<>>

\* The candidate passes the filter of the constraint (no constraint: every candidate;
\* an unrecognised constraint: none)
PassesFilter(e) ==
    \/ args.vs_year = None
    \/ /\ RecognisedYear(Unwrap(args.vs_year))
       /\ starts_with(e.installation_version, PrefixOfYear(Unwrap(args.vs_year)))

\* The candidate passes the filter and layout verification
Passes(e) == PassesFilter(e) /\ IsSome(build_vs_info(fs, e))

\* C1: with a recognised constraint detect_vs never returns a VsInfo whose version
\* does not start with the prefix of the constraint (15. for 2017, 16. for 2019, 17.
\* for 2022), and what is left after the filter is exactly the entries with that
\* prefix, in order; with no constraint the filter discards no candidate.
C1_FilterByMajorPrefix ==
    /\ (VsReturned /\ IsSome(vs) /\ IsSome(args.vs_year))
          => /\ RecognisedYear(Unwrap(args.vs_year))
             /\ starts_with(Unwrap(vs).version, PrefixOfYear(Unwrap(args.vs_year)))
    /\ (pc = "vs_sort" /\ args.vs_year = None) => vs_list = vswhere_out.entries
    /\ (pc = "vs_sort" /\ IsSome(args.vs_year))
          => vs_list = SelectSeq(vswhere_out.entries,
                                 LAMBDA e : starts_with(e.installation_version,
                                                        PrefixOfYear(Unwrap(args.vs_year))))

\* C1 witness: constraint 2019, a valid 17.x installation listed first is discarded
\* and the 16.x installation is returned.
C1_Witness ==
    /\ entry = "detect_vs" /\ pc = "done"
    /\ args.vs_year = Some(2019)
    /\ Len(vswhere_out.entries) = 2
    /\ vswhere_out.entries[1] = [installation_path |-> RootA,
                                 installation_version |-> <<"1", "7", ".", "8">>]
    /\ IsSome(vs)
    /\ Unwrap(vs).install = RootB
    /\ Unwrap(vs).version = <<"1", "6", ".", "1">>

\* Every reordering of a sequence
RECURSIVE Perms(_)
Perms(s) ==
    IF s = <<>> THEN {<<>>}
    ELSE UNION {{<<s[i]>> \o q :
                   q \in Perms(SubSeq(s, 1, i - 1) \o SubSeq(s, i + 1, Len(s)))} :
                i \in 1..Len(s)}

\* detect_vs as one function of the constraint and of what enumeration listed
Resolve(y, es) ==
    IF y = None THEN find_map(fs, sort_by(es))
    ELSE IF IsSome(major(Unwrap(y)))
         THEN find_map(fs, sort_by(filter_major(es, Unwrap(major(Unwrap(y))))))
         ELSE None

\* The indices of the candidates that pass and whose version no passing candidate exceeds
BestIndices(es) ==
    {i \in 1..Len(es) :
       /\ Passes(es[i])
       /\ \A j \in 1..Len(es) :
            Passes(es[j]) => cmp(es[j].installation_version, es[i].installation_version)
                               # "Greater"}

Min(S) == CHOOSE x \in S : \A y \in S : x <= y

\* C2 as stated: the greatest passing candidate is returned, nothing exactly when no
\* candidate passes, and the returned candidate is the same for every order in which
\* enumeration may list the candidates.
C2_OrderIndependentCandidate ==
    VsReturned =>
       /\ (vs = None) <=> (\A i \in 1..Len(Enumerated) : ~Passes(Enumerated[i]))
       /\ IsSome(vs) => \E i \in BestIndices(Enumerated) :
                           vs = build_vs_info(fs, Enumerated[i])
       /\ \A p \in Perms(Enumerated) : Resolve(args.vs_year, p) = vs

\* C2 amended: nothing is returned exactly when no candidate passes; otherwise the
\* returned candidate is, among the passing candidates with the greatest version
\* string, the one enumeration listed first; whether something is returned and the
\* returned version string are the same for every order of the list, and so is the
\* returned candidate when the passing candidates with the greatest version string
\* share one install root.
C2_GreatestVersionFirstListed ==
    VsReturned =>
       /\ (vs = None) <=> (\A i \in 1..Len(Enumerated) : ~Passes(Enumerated[i]))
       /\ IsSome(vs) => vs = build_vs_info(fs, Enumerated[Min(BestIndices(Enumerated))])
       /\ \A p \in Perms(Enumerated) : \A r \in {Resolve(args.vs_year, p)} :
            /\ IsSome(r) <=> IsSome(vs)
            /\ IsSome(vs) => Unwrap(r).version = Unwrap(vs).version
            /\ r # vs => \E i, j \in BestIndices(Enumerated) :
                            Enumerated[i].installation_path # Enumerated[j].installation_path

\* C2 witness: two valid installations with the same version string and different
\* roots; the one listed first is returned.
C2_Witness ==
    /\ entry = "detect_vs" /\ pc = "done"
    /\ Len(vswhere_out.entries) = 2
    /\ vswhere_out.entries[1].installation_path = RootB
    /\ vswhere_out.entries[2].installation_path = RootA
    /\ vswhere_out.entries[1].installation_version = vswhere_out.entries[2].installation_version
    /\ IsSome(vs)
    /\ Unwrap(vs).install = RootB

-----------------------------------------------------------------------------
(* Properties of detect_sdk, detect_ucrt and reg_find *)

\* The path is on disk
OnDisk(p) == Norm(p) \in fs.dirs \/ Norm(p) \in DOMAIN fs.files

\* The names under <root>\<sub> that are directories, start with 10. and hold the
\* marker at <rel>
Qualifying(root, sub, rel) ==
    LET base == Append(Norm(root), sub)
    IN  {d[Len(d)] : d \in {x \in fs.dirs :
                              /\ Len(x) = Len(base) + 1
                              /\ SubSeq(x, 1, Len(base)) = base
                              /\ starts_with(x[Len(x)], <<"1", "0", ".">>)
                              /\ OnDisk(x \o rel)}}

\* What a resolver must return for the key, the fixed subdirectory and the marker
KitResolved(res, k, sub, rel) ==
    IF RegLocs(k) \cap DOMAIN reg = {} THEN res = None
    ELSE /\ IsSome(reg_res)
         /\ LET root == Unwrap(reg_res)
                Q == Qualifying(root, sub, rel)
            IN  IF Append(Norm(root), sub) \notin fs.dirs \/ Q = {} THEN res = None
                ELSE /\ IsSome(res)
                     /\ Unwrap(res).path = root
                     /\ Unwrap(res).version \in Q
                     /\ \A m \in Q : cmp(m, Unwrap(res).version) # "Greater"

SdkReturned == (entry = "detect_sdk" /\ pc = "done") \/ (entry = "main" /\ pc = "main_sdk")
UcrtReturned == (entry = "detect_ucrt" /\ pc = "done") \/ (entry = "main" /\ pc = "main_ucrt")

\* C3: detect_sdk (resp. detect_ucrt) returns a version only if it names a directory
\* under include (resp. Lib) that starts with 10. and holds um/winsdkver.h (resp.
\* ucrt/x64/ucrt.lib); the version returned is the lexicographically greatest such
\* name; nothing is returned when the registry lookup fails, when the fixed
\* subdirectory is missing, or when no entry qualifies.
C3_KitVersionHasMarker ==
    /\ SdkReturned => KitResolved(sdk, SdkKey, Lit("include"), SdkRel)
    /\ UcrtReturned => KitResolved(ucrt, UcrtKey, Lit("Lib"), UcrtRel)

\* C3 witness: 10.0.2 lacks the marker, 9.0 holds one, and 10.0.10 is returned.
C3_Witness ==
    /\ entry = "detect_sdk" /\ pc = "done"
    /\ IsSome(sdk)
    /\ Unwrap(sdk).version = W10
    /\ Norm(KitsA) \o <<Lit("include"), W2>> \in fs.dirs
    /\ ~OnDisk(Norm(KitsA) \o <<Lit("include"), W2>> \o SdkRel)
    /\ OnDisk(Norm(KitsA) \o <<Lit("include"), W9>> \o SdkRel)

\* The order in which reg_find must probe
ProbeOrder ==
    <<<<"HKEY_LOCAL_MACHINE", "SOFTWARE\\Wow6432Node">>,
      <<"HKEY_LOCAL_MACHINE", "SOFTWARE">>,
      <<"HKEY_CURRENT_USER", "SOFTWARE\\Wow6432Node">>,
      <<"HKEY_CURRENT_USER", "SOFTWARE">>>>

\* The registry probes performed so far
Probes == SelectSeq(trace, LAMBDA e : e[1] = "reg_val")

\* What the registry holds at the i-th place of the order
Stored(i) ==
    LET l == <<ProbeOrder[i][1], <<ProbeOrder[i][2], reg_key.path>>, reg_key.name>>
    IN  IF l \in DOMAIN reg THEN Some(reg[l]) ELSE None

\* C6: reg_find probes at most four places, in the order (machine, 32-bit prefix),
\* (machine, native prefix), (user, 32-bit prefix), (user, native prefix); every probe
\* but the last one made has failed, so no probe follows a successful one; the value
\* returned is the one stored at the last place probed; nothing is returned only
\* after all four probes have failed.
C6_ProbeOrderShortCircuit ==
    entry \in {"reg_find", "detect_sdk", "detect_ucrt"} =>
       /\ Len(Probes) <= 4
       /\ \A i \in 1..Len(Probes) :
            Probes[i] = <<"reg_val", ProbeOrder[i][1], ProbeOrder[i][2]>>
       /\ \A i \in 1..(Len(Probes) - 1) : Stored(i) = None
       /\ (pc # "reg_find" /\ Probes # <<>>) =>
            /\ reg_res = Stored(Len(Probes))
            /\ reg_res = None => Len(Probes) = 4
       /\ (pc = "reg_find" /\ Probes # <<>>) => Stored(Len(Probes)) = None

\* C6 witness: the first two probes fail, the third succeeds, and the fourth place
\* holds another value that is never read.
C6_Witness ==
    /\ entry = "reg_find" /\ pc = "done"
    /\ Len(Probes) = 3
    /\ reg_res = Some(KitsA)
    /\ Stored(4) = Some(KitsB)

-----------------------------------------------------------------------------
(* Properties of build_env *)

\* C4: every path in each of the four lists build_env returns exists on disk; a
\* constructed path that does not exist is left out and no error is raised; a second
\* call with the same arguments against the unchanged filesystem returns the same
\* lists and variables.
C4_OnlyExistingPaths ==
    /\ IsSome(env) =>
         \A l \in {Unwrap(env).path, Unwrap(env).include, Unwrap(env).lib,
                   Unwrap(env).libpath} :
            \A i \in 1..Len(l) : OnDisk(l[i])
    /\ (entry = "build_env" /\ IsSome(env)) => (stderr = <<>> /\ exit_code = None)
    /\ IsSome(env2) => env2 = env

\* C4 witness: with SDK and UCRT passed, two of the seven header directories are
\* missing and five are listed; the second call has returned.
C4_Witness ==
    /\ entry = "build_env" /\ pc = "done"
    /\ IsSome(sdk) /\ IsSome(ucrt)
    /\ Len(Unwrap(env).include) = 5
    /\ Cardinality(IncludeDirs(Unwrap(vs), SdkInfoA, UcrtInfoA) \ fs.dirs) = 2
    /\ IsSome(env2)

\* s without the paths that are not on disk
Existing(s) == SelectSeq(s, OnDisk)

\* toolsetPath/bin/Host{host}/{arch}
ToolBin(a) == Unwrap(vs).tools \o <<Lit("bin"), host_dir(args.host), as_str(a)>>

\* sdk.path/bin/{version}/{host}
SdkBin == Norm(Unwrap(sdk).path) \o <<Lit("bin"), Unwrap(sdk).version, as_str(args.host)>>

\* C5 as stated: exactly one host-native entry when host and target are the same
\* architecture, exactly the two entries target-specific then host-native when they
\* differ.
C5_ExactlyOneOrTwoEntries ==
    IsSome(env) =>
       IF args.host = args.arch
       THEN Cardinality({i \in 1..Len(Unwrap(env).path) :
                           Unwrap(env).path[i] = ToolBin(args.host)}) = 1
       ELSE Unwrap(env).path = <<ToolBin(args.arch), ToolBin(args.host)>>

\* C5 amended: the executable search path is the toolchain entries that exist on disk
\* (the host-native directory alone when host and target are the same architecture,
\* the target-specific then the host-native directory when they differ: one, resp.
\* two, entries when the directories exist, fewer when one is missing), followed by
\* the SDK's bin/{version}/{host} when an SDK was passed and that directory exists.
C5_ToolchainEntriesThenSdk ==
    IsSome(env) =>
       Unwrap(env).path =
          Existing(IF args.host = args.arch THEN <<ToolBin(args.host)>>
                   ELSE <<ToolBin(args.arch), ToolBin(args.host)>>)
          \o (IF IsSome(sdk) THEN Existing(<<SdkBin>>) ELSE <<>>)

\* C5 witness: host and target differ, every directory exists and an SDK was passed:
\* the path holds the two toolchain entries and the SDK's.
C5_Witness ==
    /\ entry = "build_env" /\ pc = "done"
    /\ args.host = "X64" /\ args.arch = "Arm64"
    /\ IsSome(sdk)
    /\ Unwrap(env).path = <<ToolBin("Arm64"), ToolBin("X64"), SdkBin>>

\* The header directories in the order the claim fixes: toolchain, SDK, runtime
HeaderOrder ==
    <<Unwrap(vs).tools \o <<Lit("include")>>,
      Unwrap(vs).tools \o <<Lit("ATLMFC"), Lit("include")>>>>
    \o (IF IsSome(sdk)
        THEN LET sp == Norm(Unwrap(sdk).path) \o <<Lit("include"), Unwrap(sdk).version>>
             IN  <<sp \o <<Lit("um")>>, sp \o <<Lit("shared")>>, sp \o <<Lit("winrt")>>,
                   sp \o <<Lit("cppwinrt")>>>>
        ELSE <<>>)
    \o (IF IsSome(ucrt)
        THEN <<Norm(Unwrap(ucrt).path) \o <<Lit("include"), Unwrap(ucrt).version, Lit("ucrt")>>>>
        ELSE <<>>)

\* C7: the header search list is the toolchain entries (include, ATLMFC/include), then
\* the SDK entries (um, shared, winrt, cppwinrt), then the runtime entry (ucrt), each
\* present when its component was passed and the directory exists.
C7_HeaderOrder ==
    IsSome(env) => Unwrap(env).include = Existing(HeaderOrder)

\* C7 witness: SDK and runtime passed, ATLMFC/include and winrt missing: a toolchain
\* entry, three SDK entries and the runtime entry are listed.
C7_Witness ==
    /\ entry = "build_env" /\ pc = "done"
    /\ IsSome(sdk) /\ IsSome(ucrt)
    /\ Len(Unwrap(env).include) = 5
    /\ Unwrap(env).include[1] = HeaderOrder[1]
    /\ Unwrap(env).include[2] = HeaderOrder[3]
    /\ Unwrap(env).include[4] = HeaderOrder[6]
    /\ Unwrap(env).include[5] = HeaderOrder[7]

AlwaysKeys == {"VSINSTALLDIR", "VCINSTALLDIR", "VCToolsInstallDir", "VCToolsVersion",
               "VisualStudioVersion", "Platform"}
SdkKeys == {"WindowsSdkDir", "WindowsSDKVersion"}
UcrtKeys == {"UniversalCRTSdkDir", "UCRTVersion"}
DirKeys == {"VSINSTALLDIR", "VCINSTALLDIR", "VCToolsInstallDir", "WindowsSdkDir",
            "UniversalCRTSdkDir"}

\* C8: the variables table always holds the six keys for install root, VC root,
\* toolset root, toolset version, product version (17.0) and target platform; it
\* holds the SDK keys exactly when an SDK was passed and the runtime keys exactly when
\* a runtime was passed; every directory-valued variable ends with a backslash.
C8_VariablesTable ==
    IsSome(env) =>
       LET m == Unwrap(env).vars
       IN  /\ AlwaysKeys \subseteq DOMAIN m
           /\ DOMAIN m \subseteq AlwaysKeys \cup SdkKeys \cup UcrtKeys
           /\ IF IsSome(sdk) THEN SdkKeys \subseteq DOMAIN m ELSE SdkKeys \cap DOMAIN m = {}
           /\ IF IsSome(ucrt) THEN UcrtKeys \subseteq DOMAIN m ELSE UcrtKeys \cap DOMAIN m = {}
           /\ \A k \in DirKeys \cap DOMAIN m : m[k] # <<>> /\ m[k][Len(m[k])] = "\\"
           /\ m["VisualStudioVersion"] = <<"1", "7", ".", "0">>
           /\ m["VCToolsVersion"] = Unwrap(vs).tools_ver
           /\ m["VSINSTALLDIR"] = display(Unwrap(vs).install) \o <<"\\">>

\* C8 witness: an SDK but no runtime was passed: eight keys.
C8_Witness ==
    /\ entry = "build_env" /\ pc = "done"
    /\ IsSome(sdk) /\ ucrt = None
    /\ Cardinality(DOMAIN Unwrap(env).vars) = 8
    /\ "WindowsSdkDir" \in DOMAIN Unwrap(env).vars

-----------------------------------------------------------------------------
(* Properties of main *)

\* How often the existence of vswhere.exe was checked: once by detect_vs, once more
\* by list_vs_versions
ExistenceChecks == Len(SelectSeq(trace, LAMBDA e : e = Ev("exists", "vswhere.exe")))

\* A run of main that has not exited can take its next step
MainCanStep ==
    CASE pc = "main" -> ENABLED MainValidate
      [] pc = "vs_exists" -> ENABLED VsExists
      [] pc = "vs_spawn" -> ENABLED VsSpawn
      [] pc = "vs_filter" -> ENABLED VsFilter
      [] pc = "vs_sort" -> ENABLED VsSort
      [] pc = "vs_find" -> ENABLED VsFind
      [] pc = "main_vs" -> ENABLED MainVs
      [] pc = "lv_exists" -> ENABLED LvExists
      [] pc = "lv_spawn" -> ENABLED LvSpawn
      [] pc = "main_list" -> ENABLED MainList
      [] pc = "sdk_start" -> ENABLED SdkStart
      [] pc = "ucrt_start" -> ENABLED UcrtStart
      [] pc = "reg_find" -> ENABLED RegProbe
      [] pc = "sdk_scan" -> ENABLED SdkScan
      [] pc = "main_sdk" -> ENABLED MainSdk
      [] pc = "ucrt_scan" -> ENABLED UcrtScan
      [] pc = "main_ucrt" -> ENABLED MainInfo
      [] pc = "main_build" -> ENABLED MainBuild
      [] pc = "main_print" -> ENABLED MainPrint
      [] OTHER -> pc = "exit"

\* C9: a run in which detect_vs returns nothing ends with status 1 and has neither
\* assembled nor printed an environment, and when a constraint was given
\* list_vs_versions has run before the exit and its entries were written (under a
\* header, when there are any); a run in which detect_vs returns a toolchain always
\* goes on to build_env and to output and ends with status 0, whatever detect_sdk
\* and detect_ucrt returned.
C9_ToolchainFatalKitsOptional ==
    entry = "main" =>
       /\ MainCanStep
       /\ exit_code # None => pc = "exit"
       /\ (IsSome(env) \/ stdout # <<>>) => IsSome(vs)
       /\ (pc = "exit" /\ vs = None) =>
            /\ exit_code = Some(1) /\ env = None /\ stdout = <<>>
            /\ (IsSome(args.vs_year) /\ trace # <<>>) =>
                 /\ ExistenceChecks = 2
                 /\ stderr = <<"Error: Visual Studio {year} not found">>
                             \o (IF versions = <<>> THEN <<>>
                                 ELSE <<"Available versions:">>
                                      \o [i \in 1..Len(versions) |-> "  {y} ({v})"])
       /\ (pc = "exit" /\ IsSome(vs)) =>
            /\ exit_code = Some(0)
            /\ IsSome(env)
            /\ Len(stdout) = 1 /\ stdout[1].env = Unwrap(env)

\* C9 witness: a toolchain is resolved, neither SDK nor runtime is, and the run has
\* printed the environment and ended with status 0.
C9_Witness ==
    /\ entry = "main" /\ pc = "exit"
    /\ IsSome(vs) /\ sdk = None /\ ucrt = None
    /\ exit_code = Some(0)
    /\ Len(stdout) = 1

UnrecognisedYear == IsSome(args.vs_year) /\ ~RecognisedYear(Unwrap(args.vs_year))

\* C10 as stated: with a constraint outside {2017, 2019, 2022} no discovery work is
\* ever done, neither by main nor by a direct call of detect_vs.
C10_NoDiscoveryBeforeRejection ==
    (entry \in {"main", "detect_vs"} /\ UnrecognisedYear) => trace = <<>>

\* C10 amended: main, given a constraint outside {2017, 2019, 2022}, reports the
\* error and ends with status 1 without any discovery work (no existence check of
\* vswhere.exe, no subprocess, no registry probe, no filesystem scan).  A direct call
\* of detect_vs with such a constraint returns nothing, but only after it has checked
\* that vswhere.exe exists and, when it does, has run it; it verifies no candidate
\* and probes no registry.
C10_MainRejectsBeforeDiscovery ==
    /\ (entry = "main" /\ UnrecognisedYear) =>
         /\ trace = <<>>
         /\ pc \in {"main", "exit"}
         /\ pc = "exit" => /\ exit_code = Some(1)
                           /\ stderr = <<"Error: Invalid VS year">>
                           /\ stdout = <<>>
    /\ (entry = "detect_vs" /\ UnrecognisedYear) =>
         /\ vs = None
         /\ pc = "done" =>
              trace = IF vswhere_exists
                      THEN <<Ev("exists", "vswhere.exe"), Ev("spawn", "vswhere.exe")>>
                      ELSE <<Ev("exists", "vswhere.exe")>>

\* C10 witness: detect_vs(Some(2015)) has returned nothing after running vswhere,
\* which listed a valid installation.
C10_Witness ==
    /\ entry = "detect_vs" /\ pc = "done"
    /\ args.vs_year = Some(2015)
    /\ vs = None
    /\ Len(trace) = 2
    /\ Len(vswhere_out.entries) = 1
    /\ vswhere_out.entries[1].installation_path = RootA

-----------------------------------------------------------------------------
(* Properties of list_vs_versions *)

\* The states in which list_vs_versions has returned
LvReturned ==
    \/ entry = "list_vs_versions" /\ pc = "done"
    \/ entry = "main" /\ pc = "main_list"
    \/ entry = "main" /\ pc = "exit" /\ vs = None /\ IsSome(args.vs_year) /\ trace # <<>>

\* The prefix of the version string is one of the three that have a year label
Labelled(v) ==
    \/ starts_with(v, <<"1", "5", ".">>)
    \/ starts_with(v, <<"1", "6", ".">>)
    \/ starts_with(v, <<"1", "7", ".">>)

\* The label the claim gives a version string with one of the three prefixes
LabelOf(v) ==
    IF starts_with(v, <<"1", "5", ".">>) THEN 2017
    ELSE IF starts_with(v, <<"1", "6", ".">>) THEN 2019
    ELSE 2022

\* The steps list_vs_versions took: the existence check and, when vswhere.exe
\* exists, one run of it
LvSteps ==
    IF vswhere_exists
    THEN <<Ev("exists", "vswhere.exe"), Ev("spawn", "vswhere.exe")>>
    ELSE <<Ev("exists", "vswhere.exe")>>

\* C11: list_vs_versions returns one (year, version) entry for every candidate that
\* enumeration reports, in enumeration order, labelled 2017, 2019 or 2022 by its
\* prefix 15., 16. or 17., so that no reported candidate is missing from the listing;
\* and it validates no candidate against the filesystem.
C11_ListingCoversEveryCandidate ==
    LvReturned =>
       /\ Len(versions) = Len(Enumerated)
       /\ \A i \in 1..Len(versions) :
              /\ versions[i][2] = Enumerated[i].installation_version
              /\ Labelled(versions[i][2]) => versions[i][1] = LabelOf(versions[i][2])
       /\ SubSeq(trace, Len(trace) - Len(LvSteps) + 1, Len(trace)) = LvSteps

\* What list_vs_versions does return: an entry for every reported candidate whose
\* version has one of the three prefixes, in enumeration order and with the label of
\* its prefix, after no other step than the existence check and the run of
\* vswhere.exe; a candidate with any other version string is left out.
LvListsLabelledCandidates ==
    LvReturned =>
       LET listed == SelectSeq(Enumerated, LAMBDA e : Labelled(e.installation_version))
       IN  /\ Len(versions) = Len(listed)
           /\ \A i \in 1..Len(versions) :
                  versions[i] = <<LabelOf(listed[i].installation_version),
                                  listed[i].installation_version>>
           /\ SubSeq(trace, Len(trace) - Len(LvSteps) + 1, Len(trace)) = LvSteps
           /\ (entry = "list_vs_versions") => trace = LvSteps

\* detect_vs(Some(2019)) found nothing because the only installation is a 17.x one,
\* and the listing of main holds that installation labelled 2022.
LvScenario ==
    /\ entry = "main" /\ pc = "main_list"
    /\ args.vs_year = Some(2019)
    /\ Len(Enumerated) = 1
    /\ versions = <<<<2022, <<"1", "7", ".", "8">>>>>>

-----------------------------------------------------------------------------
(* Properties of build_vs_info *)

\* The content of the marker file chosen for a candidate: the pinned one when it
\* can be read, the generic one otherwise; None when neither can be read
Marker(e) ==
    LET aux == e.installation_path \o <<Lit("VC"), Lit("Auxiliary"), Lit("Build")>>
        pinned == Append(aux, Lit("Microsoft.VCToolsVersion.v143.default.txt"))
        generic == Append(aux, Lit("Microsoft.VCToolsVersion.default.txt"))
    IN  IF pinned \in DOMAIN fs.files THEN Some(trim(fs.files[pinned]))
        ELSE IF generic \in DOMAIN fs.files THEN Some(trim(fs.files[generic]))
        ELSE None

\* The toolset directory of an installation root and a toolset version
ToolsetDir(root, tv) == root \o <<Lit("VC"), Lit("Tools"), Lit("MSVC"), tv>>

\* The candidate has a readable marker and the toolset directory it names exists
Valid(e) ==
    /\ IsSome(Marker(e))
    /\ ToolsetDir(e.installation_path, Unwrap(Marker(e))) \in fs.dirs \cup DOMAIN fs.files

\* No whitespace at either end
Trimmed(s) == s = <<>> \/ (~IsWhite(s[1]) /\ ~IsWhite(s[Len(s)]))

\* How many candidates detect_vs has tried to build a VsInfo from
Tried == Len(SelectSeq(trace, LAMBDA ev : ev = Ev("build_vs_info", "fs")))

\* C12: every VsInfo detect_vs returns has vc = install\VC and
\* tools = vc\Tools\MSVC\tools_ver, its tools directory exists, and its tools_ver is
\* the trimmed content of Microsoft.VCToolsVersion.v143.default.txt when that file
\* can be read and of Microsoft.VCToolsVersion.default.txt only when it cannot; and
\* each step of the search either returns the VsInfo of a valid candidate or skips a
\* candidate whose marker is unreadable or names a missing toolset directory and
\* goes on with the next one.
C12_VsInfoWellFormed ==
    /\ [](VsReturned /\ IsSome(vs) =>
            LET v == Unwrap(vs)
            IN  /\ v.vc = Append(v.install, Lit("VC"))
                /\ v.tools = v.vc \o <<Lit("Tools"), Lit("MSVC"), v.tools_ver>>
                /\ v.tools \in fs.dirs \cup DOMAIN fs.files
                /\ Trimmed(v.tools_ver)
                /\ \E i \in 1..Len(Enumerated) :
                       /\ Enumerated[i].installation_path = v.install
                       /\ Enumerated[i].installation_version = v.version
                       /\ Marker(Enumerated[i]) = Some(v.tools_ver))
    /\ [][(pc = "vs_find" /\ vs_list # <<>>) =>
            IF Valid(Head(vs_list))
            THEN /\ pc' # "vs_find"
                 /\ vs' = Some([install |-> Head(vs_list).installation_path,
                                version |-> Head(vs_list).installation_version,
                                vc |-> Append(Head(vs_list).installation_path, Lit("VC")),
                                tools_ver |-> Unwrap(Marker(Head(vs_list))),
                                tools |-> ToolsetDir(Head(vs_list).installation_path,
                                                     Unwrap(Marker(Head(vs_list))))])
            ELSE /\ pc' = "vs_find"
                 /\ vs_list' = Tail(vs_list)
                 /\ vs' = None]_vars

\* C12 witness: the candidate at C, whose pinned marker names a toolset that is not
\* installed although its generic marker names one that is, was tried and skipped,
\* and the candidate at A was returned with the trimmed content of its pinned marker.
C12_Witness ==
    /\ entry = "detect_vs" /\ pc = "done"
    /\ Len(vswhere_out.entries) = 2
    /\ vswhere_out.entries[1].installation_path = RootA
    /\ vswhere_out.entries[2].installation_path = RootC
    /\ Tried = 2
    /\ IsSome(vs)
    /\ Unwrap(vs).install = RootA
    /\ Unwrap(vs).tools_ver = T143

-----------------------------------------------------------------------------
(* Properties of the enumeration subprocess *)

\* How often vswhere.exe has been run
Spawns == Len(SelectSeq(trace, LAMBDA ev : ev = Ev("spawn", "vswhere.exe")))

\* Running vswhere.exe failed or its output is no JSON
EnumerationFailed == ~(vswhere_out.spawn_ok /\ vswhere_out.json_ok)

\* C13: detect_vs runs vswhere.exe not at all when it is absent and exactly once
\* otherwise, never a second time, however many candidates it skips, and also when
\* the run fails or its output cannot be parsed, in which case it tries no candidate
\* and returns nothing.  In a run of main the resolution likewise runs it at most
\* once; the only other run is the one list_vs_versions makes after the resolution
\* has returned nothing for a given year.
C13_AtMostOneEnumeration ==
    /\ entry = "detect_vs" =>
         /\ Spawns <= 1
         /\ pc = "done" => Spawns = (IF vswhere_exists THEN 1 ELSE 0)
         /\ (pc = "done" /\ (~vswhere_exists \/ EnumerationFailed)) =>
              vs = None /\ Tried = 0
    /\ entry = "main" =>
         /\ pc \in {"vs_exists", "vs_spawn", "vs_filter", "vs_sort", "vs_find", "main_vs"}
              => Spawns <= 1
         /\ pc = "main_vs" => /\ Spawns = (IF vswhere_exists THEN 1 ELSE 0)
                              /\ (~vswhere_exists \/ EnumerationFailed) =>
                                    vs = None /\ Tried = 0
         /\ IsSome(vs) => Spawns = 1
         /\ Spawns <= 2
         /\ Spawns = 2 => /\ vs = None /\ IsSome(args.vs_year)
                          /\ pc \in {"main_list", "exit"}

\* C13 witness: detect_vs has tried and skipped two candidates and returned nothing,
\* having run vswhere.exe once.
C13_Witness ==
    /\ entry = "detect_vs" /\ pc = "done"
    /\ Len(vswhere_out.entries) = 2
    /\ Tried = 2
    /\ vs = None
    /\ Spawns = 1

====
